---- MODULE Spec2Model ----
(***************************************************************************)
(* Model of skills/venice-ai/scripts/generate_video.py: one run of the     *)
(* video orchestrator (main) with its three remote operations              *)
(* get_video_quote, queue_video and retrieve_video (Spec, SpecLive), and   *)
(* of skills/venice-ai/scripts/multi_edit.py: one run of the edit chain    *)
(* (SpecEdit).                                                             *)
(*                                                                         *)
(* Strings are sequences of characters (or of longer tokens where the code *)
(* never looks inside them); an optional value is a sequence of length 0   *)
(* (None) or 1.  A JSON body is the token sequence "{" k1 v1 ... kn vn "}" *)
(* and is parsed by ParseJson.  The run starts after argparse accepted the *)
(* command line; the standard streams and the output path are usable.      *)
(***************************************************************************)
EXTENDS Integers, Sequences, FiniteSets, TLC

VARIABLES
    args,         \* the parsed command line (argparse Namespace)
    environ,      \* os.environ.get("VENICE_API_KEY"), optional string
    image_file,   \* content of the input image file
    pc,           \* position of the single thread of control
    config,       \* main's config dict, optional
    confirm_line, \* the last line read by confirm_generation, optional
    queue_id,     \* main's queue_id, optional
    inflight,     \* the HTTP requests sent and not yet answered
    trace,        \* every request sent, response received and sleep, in order
    resp,         \* outcome of the last requests.post, optional
    output_file,  \* content of the file at args.output written by this run, optional
    stdout,       \* the result lines main prints (cancel / success)
    stderr,       \* the error line main prints
    exit_code,    \* the process exit status, optional
    files,        \* multi_edit: the files of the working directory, path -> content
    current_path, \* multi_edit's current_path, optional
    step_files,   \* multi_edit's step_files
    step_num      \* multi_edit's step_num, 0 before the loop

vars == <<args, environ, image_file, pc, config, confirm_line, queue_id, inflight,
          trace, resp, output_file, stdout, stderr, exit_code,
          files, current_path, step_files, step_num>>

\* the variables of multi_edit alone
editVars == <<files, current_path, step_files, step_num>>

\* the variables of generate_video alone
videoVars == <<image_file, config, confirm_line, queue_id, output_file>>

----------------------------------------------------------------------------
(* Bounds of the model *)

\* the remote answers at most MaxPolls retrieve requests of one run
MaxPolls == 4

----------------------------------------------------------------------------
(* Values *)

None == <<>>
Some(x) == <<x>>

API_BASE == <<"https://api.venice.ai/api/v1">>

AVAILABLE_MODELS ==
    [k \in {<<"1">>, <<"2">>} |->
        IF k = <<"1">>
        THEN << <<"wan-2.5-preview-image-to-video">>,
                "Image to Video (Recommended for most use cases)" >>
        ELSE << <<"wan-2.5-preview-text-to-video">>, "Text to Video" >>]

\* Python truthiness of an optional string: None and "" are falsy
Truthy(opt) == opt # None /\ opt[1] # <<>>

\* sub in s
Contains(sub, s) ==
    \E i \in 1..(Len(s) - Len(sub) + 1) : SubSeq(s, i, i + Len(sub) - 1) = sub

RECURSIVE LStrip(_)
LStrip(s) == IF s # <<>> /\ Head(s) = " " THEN LStrip(Tail(s)) ELSE s

RECURSIVE RStrip(_)
RStrip(s) ==
    IF s # <<>> /\ s[Len(s)] = " " THEN RStrip(SubSeq(s, 1, Len(s) - 1)) ELSE s

\* str.strip()
Strip(s) == RStrip(LStrip(s))

LowerChar(c) ==
    CASE c = "Y" -> "y"
      [] c = "E" -> "e"
      [] c = "S" -> "s"
      [] c = "N" -> "n"
      [] c = "O" -> "o"
      [] OTHER -> c

\* str.lower()
Lower(s) == [i \in 1..Len(s) |-> LowerChar(s[i])]

\* response.json(): the parsed object, or None when the body is no JSON object
ParseJson(b) ==
    IF Len(b) >= 2 /\ b[1] = "{" /\ b[Len(b)] = "}" /\ (Len(b) - 2) % 2 = 0
    THEN LET n == (Len(b) - 2) \div 2
             last(k) == CHOOSE i \in 1..n :
                            /\ b[2 * i] = k
                            /\ \A j \in 1..n : b[2 * j] = k => j <= i
         IN  Some([k \in {b[2 * i] : i \in 1..n} |-> b[2 * last(k) + 1]])
    ELSE None

\* dict.get(key, default)
Get(obj, key, default) == IF key \in DOMAIN obj THEN obj[key] ELSE default

\* base64.b64encode(data).decode("utf-8"), kept as a tagged copy of the data
B64(data) == <<"b64">> \o data

DataUri(data) == <<"data:image/png;base64,">> \o B64(data)

----------------------------------------------------------------------------
(* Inputs *)

\* --duration/--resolution/--aspect-ratio/--no-audio/--negative-prompt
JobOptions ==
    { [duration |-> "5s", resolution |-> "720p", aspect_ratio |-> <<"16:9">>,
       no_audio |-> FALSE, negative_prompt |-> <<>>],
      [duration |-> "10s", resolution |-> "1080p", aspect_ratio |-> <<>>,
       no_audio |-> TRUE, negative_prompt |-> <<"blurry">>] }

\* --model: absent, or a model id
ModelArgs == {None, Some(<<"wan-2.5-preview-text-to-video">>)}

\* --poll-interval (type=int)
PollIntervals == {-1, 0, 5}

\* --reference-images: absent, or paths given as (exists, content)
ReferenceArgs ==
    { None,
      Some(<< [exists |-> TRUE, data |-> <<"r1">>] >>),
      Some(<< [exists |-> TRUE, data |-> <<"r1">>],
              [exists |-> FALSE, data |-> <<>>] >>) }

Args ==
    [ image_exists : BOOLEAN,
      prompt : {<<"waves">>},
      output : {<<"video.mp4">>},
      options : JobOptions,
      model : ModelArgs,
      reference_images : ReferenceArgs,
      poll_interval : PollIntervals,
      delete_on_completion : BOOLEAN,
      yes : BOOLEAN ]

\* VENICE_API_KEY: unset, empty, or set
Environs == {None, Some(<<>>), Some(<<"k">>)}

\* lines typed at "Select model (number or ID) [1]: "
SelectLines == {<<>>, <<" ", "2">>, <<"my-model", " ">>}

\* lines typed at "Do you want to proceed? (yes/no): "
ConfirmLines ==
    {<<"y">>, <<" ", "Y", "E", "S">>, <<"n">>, <<"N", "o", " ">>,
     <<"y", "e", "p">>, <<>>}

ConnectionError ==
    [kind |-> "ConnectionError", status_code |-> 0, content_type |-> <<>>,
     content |-> <<>>]

Response(code, ctype, body) ==
    [kind |-> "response", status_code |-> code, content_type |-> ctype,
     content |-> body]

StatusCodes == {200, 500}

QuoteOutcomes ==
    {ConnectionError}
    \cup {Response(c, <<"application/json">>, b) :
            c \in StatusCodes,
            b \in {<<"{", "quote", "0.25", "}">>, <<"{", "error", "bad", "}">>}}

QueueOutcomes ==
    {ConnectionError}
    \cup {Response(c, <<"application/json">>, b) :
            c \in StatusCodes,
            b \in {<<"{", "queue_id", "q1", "}">>, <<"{", "queue_id", "q2", "}">>,
                   <<"{", "error", "bad", "}">>}}

ContentTypes ==
    {<<"video/mp4">>, <<"video/mp4", "; codecs=avc1">>, <<"application/json">>, <<>>}

ProcessingBodies ==
    {<<"{", "status", "PROCESSING", "execution_duration", "1000",
       "average_execution_time", "5000", "}">>,
     <<"{", "status", "PROCESSING", "}">>}

RetrieveBodies ==
    ProcessingBodies
    \cup {<<"00", "ftyp", "mp42">>, <<"00", "ftyp", "isom", "ff">>,
          <<"{", "status", "FAILED", "}">>, <<"{", "status", "COMPLETED", "}">>,
          <<"{", "}">>, <<"<html>">>}

RetrieveOutcomes ==
    {ConnectionError}
    \cup {Response(c, t, b) : c \in StatusCodes, t \in ContentTypes, b \in RetrieveBodies}

----------------------------------------------------------------------------
(* Events of the trace *)

\* f"Bearer {api_key}"
Bearer(api_key) == <<"Bearer ">> \o (IF api_key = None THEN <<"None">> ELSE api_key[1])

Request(op, api_key, payload) ==
    [e |-> "request", op |-> op, url |-> API_BASE \o <<"/video/", op>>,
     authorization |-> Bearer(api_key), json |-> payload]

\* what the remote answered: the outcome of the call, the HTTP status, whether
\* the content type names the media type, and the protocol fields (quote,
\* queue_id, status) of a JSON object body, None for any other body
RemoteAnswer(o) ==
    [kind |-> o.kind,
     status_code |-> o.status_code,
     media |-> Contains(<<"video/mp4">>, o.content_type),
     json |-> IF ParseJson(o.content) = None
              THEN None
              ELSE LET obj == ParseJson(o.content)[1]
                   IN  Some([k \in DOMAIN obj \cap {"quote", "queue_id", "status"} |->
                                obj[k]])]

Received(op, o) == [e |-> "response", op |-> op, answer |-> RemoteAnswer(o)]

Slept(secs) == [e |-> "sleep", secs |-> secs]

IsRequest(ev, op) == ev.e = "request" /\ ev.op = op
IsResponse(ev, op) == ev.e = "response" /\ ev.op = op
IsSleep(ev) == ev.e = "sleep"

NumRequests(op) == Cardinality({i \in 1..Len(trace) : IsRequest(trace[i], op)})

----------------------------------------------------------------------------
(* Pieces of the code *)

\* api_key = api_key or os.environ.get("VENICE_API_KEY")
ResolveKey(api_key, env) == IF Truthy(api_key) THEN api_key ELSE env

\* KeyMissing with the check left out
KeyMissingNever(api_key) == FALSE

\* if not api_key
KeyMissing(api_key) == ~Truthy(api_key)

MissingKeyError ==
    [type |-> "ValueError", message |-> <<"VENICE_API_KEY environment variable not set">>]

\* the config dict of main
BuildConfig(model) ==
    [model |-> model,
     duration |-> args.options.duration,
     resolution |-> args.options.resolution,
     aspect_ratio |-> args.options.aspect_ratio,
     audio |-> ~args.options.no_audio]

\* select_model(): the model id for a typed line
ChosenModel(line) ==
    LET typed == Strip(line)
        choice == IF typed = <<>> THEN <<"1">> ELSE typed
    IN  IF choice \in DOMAIN AVAILABLE_MODELS
        THEN AVAILABLE_MODELS[choice][1]
        ELSE choice

\* ConfirmAnswer with everything but "no" taken as consent
ConfirmAnswerDefaultYes(line) ==
    LET confirm == Lower(Strip(line))
    IN  IF confirm = <<"n", "o">> THEN Some(FALSE) ELSE Some(TRUE)

\* confirm_generation(): True, False, or None to ask again
ConfirmAnswer(line) ==
    LET confirm == Lower(Strip(line))
    IN  IF confirm \in {<<"y", "e", "s">>, <<"y">>} THEN Some(TRUE)
        ELSE IF confirm \in {<<"n", "o">>, <<"n">>} THEN Some(FALSE)
        ELSE None

\* payload of get_video_quote
QuotePayload(model, duration, resolution, aspect_ratio, audio) ==
    LET base == [model |-> model, duration |-> duration,
                 resolution |-> resolution, audio |-> audio]
    IN  IF aspect_ratio # <<>>
        THEN base @@ [aspect_ratio |-> aspect_ratio]
        ELSE base

\* QueuePayload with the default duration of queue_video in place of the argument
QueuePayloadDefaultDuration(image, prompt, duration, resolution, aspect_ratio, negative_prompt, audio, model, reference_images) ==
    LET base == [model |-> model, prompt |-> prompt, duration |-> "5s",
                 resolution |-> resolution, image_url |-> DataUri(image),
                 audio |-> audio]
        p1 == IF aspect_ratio # <<>>
              THEN base @@ [aspect_ratio |-> aspect_ratio] ELSE base
        p2 == IF negative_prompt # <<>>
              THEN p1 @@ [negative_prompt |-> negative_prompt] ELSE p1
    IN  IF reference_images # None /\ reference_images[1] # <<>>
        THEN p2 @@ [reference_image_urls |->
                      [i \in 1..Len(reference_images[1]) |->
                          DataUri(reference_images[1][i].data)]]
        ELSE p2

\* payload of queue_video, all files readable
QueuePayload(image, prompt, duration, resolution, aspect_ratio, negative_prompt, audio, model, reference_images) ==
    LET base == [model |-> model, prompt |-> prompt, duration |-> duration,
                 resolution |-> resolution, image_url |-> DataUri(image),
                 audio |-> audio]
        p1 == IF aspect_ratio # <<>>
              THEN base @@ [aspect_ratio |-> aspect_ratio] ELSE base
        p2 == IF negative_prompt # <<>>
              THEN p1 @@ [negative_prompt |-> negative_prompt] ELSE p1
    IN  IF reference_images # None /\ reference_images[1] # <<>>
        THEN p2 @@ [reference_image_urls |->
                      [i \in 1..Len(reference_images[1]) |->
                          DataUri(reference_images[1][i].data)]]
        ELSE p2

\* RetrievePayload with the default model of queue_video in place of the model
RetrievePayloadDefaultModel(model, qid, delete_on_completion) ==
    [model |-> <<"wan-2.5-preview-image-to-video">>, queue_id |-> qid,
     delete_media_on_completion |-> delete_on_completion]

\* payload of one retrieve request
RetrievePayload(model, qid, delete_on_completion) ==
    [model |-> model, queue_id |-> qid,
     delete_media_on_completion |-> delete_on_completion]

\* requests.post raising, response.raise_for_status(), response.json()[key]:
\* the error raised, or None
ResponseError(o, key) ==
    IF o.kind = "ConnectionError"
    THEN Some([type |-> "ConnectionError", message |-> <<"connection failed">>])
    ELSE IF o.status_code >= 400 /\ o.status_code < 600
    THEN Some([type |-> "HTTPError", message |-> <<ToString(o.status_code), " Error">>])
    ELSE IF ParseJson(o.content) = None
    THEN Some([type |-> "JSONDecodeError", message |-> <<"Expecting value">>])
    ELSE IF key \notin DOMAIN ParseJson(o.content)[1]
    THEN Some([type |-> "KeyError", message |-> <<key>>])
    ELSE None

\* Classify with the status field consulted before the content type
ClassifyStatusFirst(o) ==
    IF o.kind = "ConnectionError"
    THEN [next |-> "raise",
          error |-> [type |-> "ConnectionError", message |-> <<"connection failed">>]]
    ELSE IF o.status_code >= 400 /\ o.status_code < 600
    THEN [next |-> "raise",
          error |-> [type |-> "HTTPError",
                     message |-> <<ToString(o.status_code), " Error">>]]
    ELSE IF ParseJson(o.content) # None /\ "status" \in DOMAIN ParseJson(o.content)[1]
    THEN IF ParseJson(o.content)[1]["status"] = "PROCESSING"
         THEN [next |-> "sleep", error |-> None]
         ELSE [next |-> "raise",
               error |-> [type |-> "RuntimeError",
                          message |-> <<"Unexpected status: ",
                                        ParseJson(o.content)[1]["status"]>>]]
    ELSE IF Contains(<<"video/mp4">>, o.content_type)
    THEN [next |-> "ready", error |-> None]
    ELSE [next |-> "raise",
          error |-> [type |-> "RuntimeError",
                     message |-> <<"Unexpected status: ", "UNKNOWN">>]]

\* Classify with a missing status field taken as still processing
ClassifyRetryUnknown(o) ==
    IF o.kind = "ConnectionError"
    THEN [next |-> "raise",
          error |-> [type |-> "ConnectionError", message |-> <<"connection failed">>]]
    ELSE IF o.status_code >= 400 /\ o.status_code < 600
    THEN [next |-> "raise",
          error |-> [type |-> "HTTPError",
                     message |-> <<ToString(o.status_code), " Error">>]]
    ELSE IF Contains(<<"video/mp4">>, o.content_type)
    THEN [next |-> "ready", error |-> None]
    ELSE IF ParseJson(o.content) = None
    THEN [next |-> "raise",
          error |-> [type |-> "JSONDecodeError", message |-> <<"Expecting value">>]]
    ELSE LET status == Get(ParseJson(o.content)[1], "status", "PROCESSING")
         IN  IF status = "PROCESSING"
             THEN [next |-> "sleep", error |-> None]
             ELSE [next |-> "raise",
                   error |-> [type |-> "RuntimeError",
                              message |-> <<"Unexpected status: ", status>>]]

\* Classify with a server error (5xx) taken as still processing
ClassifyRetryServerError(o) ==
    IF o.kind = "ConnectionError"
    THEN [next |-> "raise",
          error |-> [type |-> "ConnectionError", message |-> <<"connection failed">>]]
    ELSE IF o.status_code >= 500 /\ o.status_code < 600
    THEN [next |-> "sleep", error |-> None]
    ELSE IF o.status_code >= 400 /\ o.status_code < 500
    THEN [next |-> "raise",
          error |-> [type |-> "HTTPError",
                     message |-> <<ToString(o.status_code), " Error">>]]
    ELSE IF Contains(<<"video/mp4">>, o.content_type)
    THEN [next |-> "ready", error |-> None]
    ELSE IF ParseJson(o.content) = None
    THEN [next |-> "raise",
          error |-> [type |-> "JSONDecodeError", message |-> <<"Expecting value">>]]
    ELSE LET status == Get(ParseJson(o.content)[1], "status", "UNKNOWN")
         IN  IF status = "PROCESSING"
             THEN [next |-> "sleep", error |-> None]
             ELSE [next |-> "raise",
                   error |-> [type |-> "RuntimeError",
                              message |-> <<"Unexpected status: ", status>>]]

\* one pass of the loop body of retrieve_video after requests.post returned o:
\* "ready" (media), "sleep" (still processing) or "raise" with the error
Classify(o) ==
    IF o.kind = "ConnectionError"
    THEN [next |-> "raise",
          error |-> [type |-> "ConnectionError", message |-> <<"connection failed">>]]
    ELSE IF o.status_code >= 400 /\ o.status_code < 600
    THEN [next |-> "raise",
          error |-> [type |-> "HTTPError",
                     message |-> <<ToString(o.status_code), " Error">>]]
    ELSE IF Contains(<<"video/mp4">>, o.content_type)
    THEN [next |-> "ready", error |-> None]
    ELSE IF ParseJson(o.content) = None
    THEN [next |-> "raise",
          error |-> [type |-> "JSONDecodeError", message |-> <<"Expecting value">>]]
    ELSE LET status == Get(ParseJson(o.content)[1], "status", "UNKNOWN")
         IN  IF status = "PROCESSING"
             THEN [next |-> "sleep", error |-> None]
             ELSE [next |-> "raise",
                   error |-> [type |-> "RuntimeError",
                              message |-> <<"Unexpected status: ", status>>]]

\* Sleeps with the default interval in place of the configured one
SleepsDefault(secs) == <<Slept(5)>>

\* time.sleep(poll_interval) returning: the wait the run performed
Sleeps(secs) == <<Slept(secs)>>

\* WriteBytes through a text decode that drops the bytes that are no text
WriteBytesText(content) == SelectSeq(content, LAMBDA b : b # "ff")

\* f.write(response.content) on a file opened "wb"
WriteBytes(content) == content

\* time.sleep(secs): an error for a negative length, else None
SleepError(secs) ==
    IF secs < 0
    THEN Some([type |-> "ValueError", message |-> <<"sleep length must be non-negative">>])
    ELSE None

----------------------------------------------------------------------------
(* The run *)

Init ==
    /\ args \in Args
    /\ environ \in Environs
    /\ image_file = <<"89", "PNG">>
    /\ pc = "main"
    /\ config = None
    /\ confirm_line = None
    /\ queue_id = None
    /\ inflight = {}
    /\ trace = <<>>
    /\ resp = None
    /\ output_file = None
    /\ stdout = <<>>
    /\ stderr = None
    /\ exit_code = None
    /\ files = <<>>
    /\ current_path = None
    /\ step_files = <<>>
    /\ step_num = 0

\* sys.exit(code)
Exit(code) ==
    /\ pc' = "exit"
    /\ exit_code' = Some(code)

\* Fail with the sys.exit(1) of the handler left out
FailExitZero(err) ==
    /\ stderr' = Some(err)
    /\ Exit(0)

\* an exception reaching "except Exception as e" of main: printed, sys.exit(1)
Fail(err) ==
    /\ stderr' = Some(err)
    /\ Exit(1)

\* main up to the model selection: the image check, then --model or the prompt
MainStart ==
    /\ pc = "main"
    /\ IF ~args.image_exists
       THEN /\ stderr' = Some([type |-> "Error", message |-> <<"Image file not found">>])
            /\ Exit(1)
            /\ UNCHANGED config
       ELSE IF Truthy(args.model)
       THEN /\ config' = Some(BuildConfig(args.model[1]))
            /\ pc' = "get_video_quote"
            /\ UNCHANGED <<stderr, exit_code>>
       ELSE /\ pc' = "select_model"
            /\ UNCHANGED <<config, stderr, exit_code>>
    /\ UNCHANGED <<editVars, args, environ, image_file, confirm_line, queue_id, inflight, trace, resp,
                   output_file, stdout>>

\* select_model() answered with a line, then the config dict
SelectModel ==
    /\ pc = "select_model"
    /\ \E line \in SelectLines :
          config' = Some(BuildConfig(ChosenModel(line)))
    /\ pc' = "get_video_quote"
    /\ UNCHANGED <<editVars, args, environ, image_file, confirm_line, queue_id, inflight, trace, resp,
                   output_file, stdout, stderr, exit_code>>

\* input() at end of input: EOFError
SelectModelEOF ==
    /\ pc = "select_model"
    /\ Fail([type |-> "EOFError", message |-> <<"EOF when reading a line">>])
    /\ UNCHANGED <<editVars, args, environ, image_file, config, confirm_line, queue_id, inflight, trace,
                   resp, output_file, stdout>>

\* get_video_quote up to requests.post
GetVideoQuoteSend ==
    /\ pc = "get_video_quote"
    /\ LET api_key == ResolveKey(None, environ)
           cfg == config[1]
       IN  IF KeyMissing(api_key)
           THEN /\ Fail(MissingKeyError)
                /\ UNCHANGED <<inflight, trace>>
           ELSE LET rq == Request("quote", api_key,
                                  QuotePayload(cfg.model, cfg.duration, cfg.resolution,
                                               cfg.aspect_ratio, cfg.audio))
                IN  /\ inflight' = inflight \cup {rq}
                    /\ trace' = Append(trace, rq)
                    /\ pc' = "quote_wait"
                    /\ UNCHANGED <<stderr, exit_code>>
    /\ UNCHANGED <<editVars, args, environ, image_file, config, confirm_line, queue_id, resp, output_file,
                   stdout>>

\* AfterQuote without the confirmation
AfterQuoteSkip == "queue_video"

\* where main goes with the price: the prompt, or straight on with --yes
AfterQuote == IF args.yes THEN "queue_video" ELSE "confirm"

\* requests.post of get_video_quote returns or raises; config["price"] = price
GetVideoQuoteRecv ==
    /\ pc = "quote_wait"
    /\ \E o \in QuoteOutcomes, rq \in inflight :
          /\ rq.op = "quote"
          /\ inflight' = inflight \ {rq}
          /\ resp' = Some(o)
          /\ trace' = Append(trace, Received("quote", o))
          /\ IF ResponseError(o, "quote") # None
             THEN /\ Fail(ResponseError(o, "quote")[1])
                  /\ UNCHANGED config
             ELSE /\ config' = Some(config[1] @@ [price |-> ParseJson(o.content)[1]["quote"]])
                  /\ pc' = AfterQuote
                  /\ UNCHANGED <<stderr, exit_code>>
    /\ UNCHANGED <<editVars, args, environ, image_file, confirm_line, queue_id, output_file, stdout>>

\* confirm_generation answered with a line: go on, cancel (sys.exit(0)) or ask again
ConfirmGeneration ==
    /\ pc = "confirm"
    /\ \E line \in ConfirmLines :
          /\ confirm_line' = Some(line)
          /\ IF ConfirmAnswer(line) = Some(TRUE)
             THEN /\ pc' = "queue_video"
                  /\ UNCHANGED <<stdout, exit_code>>
             ELSE IF ConfirmAnswer(line) = Some(FALSE)
             THEN /\ stdout' = Append(stdout, "Video generation cancelled.")
                  /\ Exit(0)
             ELSE UNCHANGED <<pc, stdout, exit_code>>
    /\ UNCHANGED <<editVars, args, environ, image_file, config, queue_id, inflight, trace,
                   resp, output_file, stderr>>

\* input() at end of input: EOFError
ConfirmEOF ==
    /\ pc = "confirm"
    /\ Fail([type |-> "EOFError", message |-> <<"EOF when reading a line">>])
    /\ UNCHANGED <<editVars, args, environ, image_file, config, confirm_line, queue_id, inflight, trace,
                   resp, output_file, stdout>>

\* the first reference image that cannot be opened, or 0
FirstMissing(refs) ==
    IF refs = None \/ \A i \in 1..Len(refs[1]) : refs[1][i].exists
    THEN 0
    ELSE CHOOSE i \in 1..Len(refs[1]) :
            /\ ~refs[1][i].exists
            /\ \A j \in 1..(i - 1) : refs[1][j].exists

\* queue_video up to requests.post
QueueVideoSend ==
    /\ pc = "queue_video"
    /\ LET api_key == ResolveKey(None, environ)
           cfg == config[1]
       IN  IF KeyMissing(api_key)
           THEN /\ Fail(MissingKeyError)
                /\ UNCHANGED <<inflight, trace>>
           ELSE IF FirstMissing(args.reference_images) # 0
           THEN /\ Fail([type |-> "FileNotFoundError",
                         message |-> <<"reference image ",
                                       ToString(FirstMissing(args.reference_images))>>])
                /\ UNCHANGED <<inflight, trace>>
           ELSE LET rq == Request("queue", api_key,
                                  QueuePayload(image_file, args.prompt, cfg.duration,
                                               cfg.resolution, cfg.aspect_ratio,
                                               args.options.negative_prompt, cfg.audio,
                                               cfg.model, args.reference_images))
                IN  /\ inflight' = inflight \cup {rq}
                    /\ trace' = Append(trace, rq)
                    /\ pc' = "queue_wait"
                    /\ UNCHANGED <<stderr, exit_code>>
    /\ UNCHANGED <<editVars, args, environ, image_file, config, confirm_line, queue_id, resp, output_file,
                   stdout>>

\* requests.post of queue_video returns or raises
QueueVideoRecv ==
    /\ pc = "queue_wait"
    /\ \E o \in QueueOutcomes, rq \in inflight :
          /\ rq.op = "queue"
          /\ inflight' = inflight \ {rq}
          /\ resp' = Some(o)
          /\ trace' = Append(trace, Received("queue", o))
          /\ IF ResponseError(o, "queue_id") # None
             THEN /\ Fail(ResponseError(o, "queue_id")[1])
                  /\ UNCHANGED queue_id
             ELSE /\ queue_id' = Some(ParseJson(o.content)[1]["queue_id"])
                  /\ pc' = "retrieve_video"
                  /\ UNCHANGED <<stderr, exit_code>>
    /\ UNCHANGED <<editVars, args, environ, image_file, config, confirm_line, output_file, stdout>>

\* retrieve_video before its loop: the credential check
RetrieveVideoEnter ==
    /\ pc = "retrieve_video"
    /\ IF KeyMissing(ResolveKey(None, environ))
       THEN Fail(MissingKeyError)
       ELSE /\ pc' = "poll"
            /\ UNCHANGED <<stderr, exit_code>>
    /\ UNCHANGED <<editVars, args, environ, image_file, config, confirm_line, queue_id, inflight, trace,
                   resp, output_file, stdout>>

\* the loop of retrieve_video up to requests.post
PollSend ==
    /\ pc = "poll"
    /\ LET rq == Request("retrieve", ResolveKey(None, environ),
                         RetrievePayload(config[1].model, queue_id[1],
                                         args.delete_on_completion))
       IN  /\ inflight' = inflight \cup {rq}
           /\ trace' = Append(trace, rq)
    /\ pc' = "poll_wait"
    /\ UNCHANGED <<editVars, args, environ, image_file, config, confirm_line, queue_id, resp, output_file,
                   stdout, stderr, exit_code>>

\* the rest of the loop body: requests.post returns or raises, then the media is
\* written and main ends, or the poller sleeps and loops, or the error ends main
PollRecv ==
    /\ pc = "poll_wait"
    /\ \E o \in RetrieveOutcomes, rq \in inflight :
          /\ rq.op = "retrieve"
          /\ NumRequests("retrieve") >= MaxPolls => o.content \notin ProcessingBodies
          /\ inflight' = inflight \ {rq}
          /\ resp' = Some(o)
          /\ LET got == Append(trace, Received("retrieve", o))
                 step == Classify(o)
             IN  IF step.next = "ready"
                 THEN /\ output_file' = Some(WriteBytes(o.content))
                      /\ stdout' = Append(stdout, "Successfully generated video")
                      /\ trace' = got
                      /\ Exit(0)
                      /\ UNCHANGED stderr
                 ELSE IF step.next = "sleep"
                 THEN IF SleepError(args.poll_interval) # None
                      THEN /\ trace' = got
                           /\ Fail(SleepError(args.poll_interval)[1])
                           /\ UNCHANGED <<output_file, stdout>>
                      ELSE /\ trace' = got \o Sleeps(args.poll_interval)
                           /\ pc' = "poll"
                           /\ UNCHANGED <<output_file, stdout, stderr, exit_code>>
                 ELSE /\ trace' = got
                      /\ Fail(step.error)
                      /\ UNCHANGED <<output_file, stdout>>
    /\ UNCHANGED <<editVars, args, environ, image_file, config, confirm_line, queue_id>>

Next ==
    \/ MainStart
    \/ SelectModel
    \/ SelectModelEOF
    \/ GetVideoQuoteSend
    \/ GetVideoQuoteRecv
    \/ ConfirmGeneration
    \/ ConfirmEOF
    \/ QueueVideoSend
    \/ QueueVideoRecv
    \/ RetrieveVideoEnter
    \/ PollSend
    \/ PollRecv

Spec == Init /\ [][Next]_vars

----------------------------------------------------------------------------
(* multi_edit.py: values and inputs *)

\* at most MaxEdits edit prompts on one command line
MaxEdits == 3

\* a path is a sequence of tokens, the last one its extension if it has one
Extensions == {".png", ".jpg"}

\* f".temp_step_{step_num}.png"
TempStep(k) == <<".temp_step_", ToString(k), ".png">>

\* os.path.splitext(path)[0]
SplitExtRoot(path) ==
    IF Len(path) > 1 /\ path[Len(path)] \in Extensions
    THEN SubSeq(path, 1, Len(path) - 1)
    ELSE path

\* the path a step is saved to
StepPath(save_steps, output, k) ==
    IF save_steps
    THEN SplitExtRoot(output) \o <<"_step", ToString(k), ".png">>
    ELSE TempStep(k)

\* content of the input image before the run
Original == <<"orig">>

\* the i-th edit prompt of a command line
Prompt(i) == <<"edit ", ToString(i)>>

\* the Namespace of multi_edit's parser: nargs="+" makes edits non-empty
EditArgs ==
    [image : {<<"in", ".png">>, TempStep(1), TempStep(2)},
     edits : {[i \in 1..n |-> Prompt(i)] : n \in 1..MaxEdits},
     output : {<<"final_edit", ".png">>, <<"out", ".jpg">>},
     model : {<<"qwen-edit">>},
     save_steps : BOOLEAN,
     aspect_ratio : {None, Some(<<"16:9">>)}]

\* image bytes the remote may return
EditBodies == {<<"a">>, <<"b">>}

\* what requests.post of apply_edit can do
EditOutcomes ==
    {ConnectionError, Response(500, <<"application/json">>, <<"{", "}">>)}
        \cup {Response(200, <<"image/png">>, b) : b \in EditBodies}

\* the form fields of apply_edit
EditData(prompt, model, aspect_ratio) ==
    LET data == [prompt |-> prompt, modelId |-> model]
    IN  IF Truthy(aspect_ratio)
        THEN data @@ [aspect_ratio |-> aspect_ratio[1]]
        ELSE data

\* the POST of apply_edit: the open image file is uploaded with the form fields
EditRequest(api_key, image, data) ==
    [e |-> "request", op |-> "edit", url |-> API_BASE \o <<"/image/edit">>,
     authorization |-> Bearer(api_key), files |-> [image |-> image], data |-> data]

\* what the remote answered to an edit request
EditReceived(o) ==
    [e |-> "response", op |-> "edit", kind |-> o.kind, status_code |-> o.status_code,
     content |-> o.content]

\* os.remove(path) was called and did or did not remove the file
Removed(path, ok) == [e |-> "remove", path |-> path, ok |-> ok]

\* requests.post raising, or response.raise_for_status()
EditError(o) ==
    IF o.kind = "ConnectionError"
    THEN Some([type |-> "ConnectionError", message |-> <<"connection failed">>])
    ELSE IF o.status_code >= 400 /\ o.status_code < 600
    THEN Some([type |-> "HTTPError", message |-> <<ToString(o.status_code), " Error">>])
    ELSE None

RemoveError == [type |-> "PermissionError", message |-> <<"Permission denied">>]

\* BestEffort without the try: the error of os.remove leaves the block
BestEffortRaises(err) == err

\* try: os.remove(...) except: pass -- the error that leaves the block: none
BestEffort(err) == None

\* open(path, "wb") and f.write(content)
WriteFile(fs, path, content) ==
    [p \in DOMAIN fs \cup {path} |-> IF p = path THEN content ELSE fs[p]]

\* os.remove(path) that succeeds
RemoveFile(fs, path) == [p \in DOMAIN fs \ {path} |-> fs[p]]

\* os.rename(src, dst) of an existing src: dst is replaced
RenameFile(fs, src, dst) ==
    [p \in (DOMAIN fs \ {src}) \cup {dst} |-> IF p = dst THEN fs[src] ELSE fs[p]]

\* the final loop of multi_edit: every step file that exists is removed
CleanUp(fs, paths) ==
    [p \in DOMAIN fs \ {paths[i] : i \in 1..Len(paths)} |-> fs[p]]

----------------------------------------------------------------------------
(* multi_edit.py: the run *)

InitEdit ==
    /\ args \in EditArgs
    /\ environ \in Environs
    /\ files \in {<<>>, [p \in {args.image} |-> Original]}
    /\ pc = "edit_main"
    /\ current_path = None
    /\ step_files = <<>>
    /\ step_num = 0
    /\ inflight = {}
    /\ trace = <<>>
    /\ resp = None
    /\ stdout = <<>>
    /\ stderr = None
    /\ exit_code = None
    /\ image_file = <<>>
    /\ config = None
    /\ confirm_line = None
    /\ queue_id = None
    /\ output_file = None

\* main of multi_edit up to the first iteration of the loop of multi_edit
EditMain ==
    /\ pc = "edit_main"
    /\ IF args.image \notin DOMAIN files
       THEN /\ stderr' = Some([type |-> "Error", message |-> <<"Image file not found">>])
            /\ Exit(1)
            /\ UNCHANGED <<current_path, step_num>>
       ELSE IF args.edits = <<>>
       THEN /\ stderr' = Some([type |-> "Error",
                               message |-> <<"At least one edit prompt is required">>])
            /\ Exit(1)
            /\ UNCHANGED <<current_path, step_num>>
       ELSE /\ current_path' = Some(args.image)
            /\ step_num' = 1
            /\ pc' = "apply_edit"
            /\ UNCHANGED <<stderr, exit_code>>
    /\ UNCHANGED <<videoVars, args, environ, files, step_files, inflight, trace, resp, stdout>>

\* apply_edit up to requests.post
ApplyEditSend ==
    /\ pc = "apply_edit"
    /\ LET api_key == ResolveKey(None, environ)
       IN  IF KeyMissing(api_key)
           THEN /\ Fail(MissingKeyError)
                /\ UNCHANGED <<inflight, trace>>
           ELSE IF current_path[1] \notin DOMAIN files
           THEN /\ Fail([type |-> "FileNotFoundError", message |-> current_path[1]])
                /\ UNCHANGED <<inflight, trace>>
           ELSE LET rq == EditRequest(api_key, files[current_path[1]],
                                      EditData(args.edits[step_num], args.model,
                                               args.aspect_ratio))
                IN  /\ inflight' = inflight \cup {rq}
                    /\ trace' = Append(trace, rq)
                    /\ pc' = "edit_wait"
                    /\ UNCHANGED <<stderr, exit_code>>
    /\ UNCHANGED <<videoVars, editVars, args, environ, resp, stdout>>

\* requests.post of apply_edit returns or raises; then the rest of the loop body:
\* the step file is written, the previous temporary file removed (os.remove may
\* fail), and the loop goes on or ends
ApplyEditRecv ==
    /\ pc = "edit_wait"
    /\ \E o \in EditOutcomes, rq \in inflight, ok \in BOOLEAN :
          /\ rq.op = "edit"
          /\ inflight' = inflight \ {rq}
          /\ resp' = Some(o)
          /\ LET got == Append(trace, EditReceived(o))
                 step_path == StepPath(args.save_steps, args.output, step_num)
                 written == WriteFile(files, step_path, o.content)
                 cleans == ~args.save_steps /\ step_num > 1
                 removes == cleans /\ ok /\ current_path[1] \in DOMAIN written
                 escaped == IF cleans /\ ~removes THEN BestEffort(Some(RemoveError)) ELSE None
                 log == IF cleans THEN <<Removed(current_path[1], removes)>> ELSE <<>>
             IN  IF EditError(o) # None
                 THEN /\ trace' = got
                      /\ Fail(EditError(o)[1])
                      /\ UNCHANGED editVars
                 ELSE /\ trace' = got \o log
                      /\ step_files' = IF args.save_steps
                                       THEN Append(step_files, step_path)
                                       ELSE step_files
                      /\ IF escaped # None
                         THEN /\ files' = written
                              /\ Fail(escaped[1])
                              /\ UNCHANGED <<current_path, step_num>>
                         ELSE /\ files' = IF removes
                                          THEN RemoveFile(written, current_path[1])
                                          ELSE written
                              /\ current_path' = Some(step_path)
                              /\ IF step_num < Len(args.edits)
                                 THEN /\ step_num' = step_num + 1
                                      /\ pc' = "apply_edit"
                                 ELSE /\ pc' = "finish"
                                      /\ UNCHANGED step_num
                              /\ UNCHANGED <<stderr, exit_code>>
    /\ UNCHANGED <<videoVars, args, environ, stdout>>

\* multi_edit after its loop, and the end of main: the rename to the output
\* name, the final clean-up, the success message
FinishEdit ==
    /\ pc = "finish"
    /\ LET renamed == IF current_path[1] # args.output
                      THEN RenameFile(files, current_path[1], args.output)
                      ELSE files
       IN  files' = IF ~args.save_steps THEN CleanUp(renamed, step_files) ELSE renamed
    /\ stdout' = Append(stdout, "Successfully applied all edits!")
    /\ Exit(0)
    /\ UNCHANGED <<videoVars, args, environ, current_path, step_files, step_num, inflight,
                   trace, resp, stderr>>

NextEdit ==
    \/ EditMain
    \/ ApplyEditSend
    \/ ApplyEditRecv
    \/ FinishEdit

SpecEdit == InitEdit /\ [][NextEdit]_vars

----------------------------------------------------------------------------
(* Vocabulary of the properties *)

\* the call returned a response that raise_for_status lets through
AnswerOk(a) == a.kind = "response" /\ ~(a.status_code >= 400 /\ a.status_code < 600)

\* a response with the media content type
IsMediaAnswer(a) == AnswerOk(a) /\ a.media

\* a structured (JSON object, non-media) response
IsStructuredAnswer(a) == AnswerOk(a) /\ ~a.media /\ a.json # None

\* the status text of a structured response: its status field, else "UNKNOWN"
StatusText(a) == Get(a.json[1], "status", "UNKNOWN")

IsProcessingAnswer(a) ==
    /\ IsStructuredAnswer(a)
    /\ "status" \in DOMAIN a.json[1]
    /\ a.json[1]["status"] = "PROCESSING"

\* the poller state of section 4.3, "none" outside the poller
PollerState ==
    CASE pc = "retrieve_video" -> "Submitted"
      [] pc \in {"poll", "poll_wait"} -> "Polling"
      [] pc = "exit" /\ output_file # None -> "Ready"
      [] pc = "exit" /\ output_file = None /\ queue_id # None -> "Failed"
      [] OTHER -> "none"

\* the retrieve requests, their responses and the sleeps, in order
PollEvents == SelectSeq(trace, LAMBDA ev : IsSleep(ev) \/ ev.op = "retrieve")

NumSleeps == Cardinality({i \in 1..Len(trace) : IsSleep(trace[i])})

LastIs(i) == i = Len(trace)

----------------------------------------------------------------------------
(* C1 *)

\* C1: the poller goes Submitted -> Polling -> {Ready | Failed}; Polling is left
\* only in a step that receives a poll response, and never on a "PROCESSING"
\* response: after such a response the poller is in Polling, about to issue the
\* next poll.
C1_PollingLeftOnlyByResponseContent ==
    [][ /\ PollerState = "Submitted" => PollerState' \in {"Polling", "Failed"}
        /\ PollerState = "Polling" => PollerState' \in {"Polling", "Ready", "Failed"}
        /\ PollerState \in {"Ready", "Failed"} => PollerState' = PollerState
        /\ (pc = "poll_wait" /\ IsProcessingAnswer(RemoteAnswer(resp'[1])))
              => pc' = "poll"
        /\ (PollerState = "Polling" /\ PollerState' # "Polling")
              => /\ pc = "poll_wait"
                 /\ Len(trace') = Len(trace) + 1
                 /\ IsResponse(trace'[Len(trace')], "retrieve")
                 /\ ~IsProcessingAnswer(trace'[Len(trace')].answer)
      ]_vars

----------------------------------------------------------------------------
(* C2 *)

\* C2: every poll response with the media content type ends the run in success:
\* it is the last event, nothing is in flight, the body is in the output file
\* and the exit status is 0, whatever status field the body carries.
C2_MediaIsTerminalSuccess ==
    \A i \in 1..Len(trace) :
        (IsResponse(trace[i], "retrieve") /\ IsMediaAnswer(trace[i].answer))
            => /\ LastIs(i)
               /\ inflight = {}
               /\ pc = "exit"
               /\ exit_code = Some(0)
               /\ stderr = None
               /\ output_file = Some(resp[1].content)

\* a media response whose body is a JSON object with status "PROCESSING" was
\* received and written
C2_Witness ==
    /\ trace # <<>>
    /\ IsResponse(trace[Len(trace)], "retrieve")
    /\ IsMediaAnswer(trace[Len(trace)].answer)
    /\ trace[Len(trace)].answer.json = Some([status |-> "PROCESSING"])
    /\ output_file = Some(<<"{", "status", "PROCESSING", "}">>)

----------------------------------------------------------------------------
(* C3 *)

\* C3: every structured (non-media) poll response whose status is not
\* "PROCESSING", a missing status included, ends the run in failure: the error
\* embeds the status text, the response is the last event (no further request,
\* no wait), no output file is written and the exit status is 1.
C3_OtherStatusIsTerminalFailure ==
    \A i \in 1..Len(trace) :
        ( /\ IsResponse(trace[i], "retrieve")
          /\ IsStructuredAnswer(trace[i].answer)
          /\ ~IsProcessingAnswer(trace[i].answer) )
            => /\ LastIs(i)
               /\ inflight = {}
               /\ pc = "exit"
               /\ exit_code = Some(1)
               /\ stderr = Some([type |-> "RuntimeError",
                                 message |-> <<"Unexpected status: ",
                                               StatusText(trace[i].answer)>>])
               /\ output_file = None

\* a structured response without a status field arrived after a PROCESSING one
C3_Witness ==
    /\ Len(trace) > 1
    /\ IsResponse(trace[Len(trace)], "retrieve")
    /\ IsStructuredAnswer(trace[Len(trace)].answer)
    /\ "status" \notin DOMAIN trace[Len(trace)].answer.json[1]
    /\ NumSleeps >= 1
    /\ pc = "exit"

----------------------------------------------------------------------------
(* C4 *)

\* C4: a run that returns the media after n "PROCESSING" responses made exactly
\* n + 1 retrieve requests and n waits, each of args.poll_interval seconds and
\* each between the PROCESSING response and the next request; in every state a
\* wait follows a PROCESSING response directly and lasts args.poll_interval.
C4_ExactlyNWaitsOfP ==
    /\ \A i \in 1..Len(trace) :
          IsSleep(trace[i])
             => /\ trace[i].secs = args.poll_interval
                /\ i > 1
                /\ IsResponse(trace[i - 1], "retrieve")
                /\ IsProcessingAnswer(trace[i - 1].answer)
                /\ i < Len(trace) => IsRequest(trace[i + 1], "retrieve")
    /\ PollerState = "Ready"
          => LET R == PollEvents
                 n == Cardinality({i \in 1..Len(R) :
                         IsResponse(R[i], "retrieve") /\ IsProcessingAnswer(R[i].answer)})
             IN  /\ Len(R) = 3 * n + 2
                 /\ NumSleeps = n
                 /\ NumRequests("retrieve") = n + 1
                 /\ \A j \in 0..(n - 1) :
                       /\ IsRequest(R[3 * j + 1], "retrieve")
                       /\ IsResponse(R[3 * j + 2], "retrieve")
                       /\ IsProcessingAnswer(R[3 * j + 2].answer)
                       /\ R[3 * j + 3] = Slept(args.poll_interval)
                 /\ IsRequest(R[3 * n + 1], "retrieve")
                 /\ IsResponse(R[3 * n + 2], "retrieve")
                 /\ IsMediaAnswer(R[3 * n + 2].answer)

\* the case of the specification: interval 5, three PROCESSING responses, then
\* the media
C4_Witness ==
    /\ PollerState = "Ready"
    /\ args.poll_interval = 5
    /\ NumSleeps = 3
    /\ NumRequests("retrieve") = 4

----------------------------------------------------------------------------
(* C5 *)

\* the typed line is a "no"
Declined(line) == Lower(Strip(line)) \in {<<"n", "o">>, <<"n">>}

\* the typed line is a "yes"
Accepted(line) == Lower(Strip(line)) \in {<<"y", "e", "s">>, <<"y">>}

\* C5: once the user has declined at the confirmation prompt the run is over
\* with exit status 0, no step follows, and no queue or retrieve request was
\* sent and no output file written.
C5_DeclineStopsBeforeQueue ==
    (confirm_line # None /\ Declined(confirm_line[1]))
        => /\ pc = "exit"
           /\ ~ENABLED Next
           /\ exit_code = Some(0)
           /\ stderr = None
           /\ NumRequests("queue") = 0
           /\ NumRequests("retrieve") = 0
           /\ inflight = {}
           /\ output_file = None

\* the user saw the quote and typed "n"
C5_Witness ==
    /\ confirm_line = Some(<<"n">>)
    /\ NumRequests("quote") = 1
    /\ pc = "exit"

----------------------------------------------------------------------------
(* C6 *)

\* C6: with VENICE_API_KEY unset (or empty) no request is ever sent, the run
\* does not get past get_video_quote, and when it has exited the status is 1.
C6_NoCredentialNoNetwork ==
    ~Truthy(environ)
        => /\ trace = <<>>
           /\ inflight = {}
           /\ output_file = None
           /\ pc \in {"main", "select_model", "get_video_quote", "exit"}
           /\ pc = "exit" => exit_code = Some(1)
           /\ pc # "exit" => ENABLED Next

\* the variable is unset, the image exists, and get_video_quote raised
C6_Witness ==
    /\ environ = None
    /\ args.image_exists
    /\ pc = "exit"
    /\ stderr = Some(MissingKeyError)

----------------------------------------------------------------------------
(* C7 *)

\* C7: whenever the run has written the output file, the file holds exactly the
\* body of the last retrieve response, which is the last event of the run, and
\* the run has ended with exit status 0.
C7_OutputIsTerminalBody ==
    output_file # None
        => /\ pc = "exit"
           /\ exit_code = Some(0)
           /\ trace # <<>>
           /\ IsResponse(trace[Len(trace)], "retrieve")
           /\ IsMediaAnswer(trace[Len(trace)].answer)
           /\ RemoteAnswer(resp[1]) = trace[Len(trace)].answer
           /\ output_file[1] = resp[1].content

\* a binary body was written after at least one PROCESSING response
C7_Witness ==
    /\ output_file = Some(<<"00", "ftyp", "isom", "ff">>)
    /\ NumSleeps >= 1

----------------------------------------------------------------------------
(* C8 *)

OpRank(op) == CASE op = "quote" -> 1 [] op = "queue" -> 2 [] op = "retrieve" -> 3

\* C8: at most one call is in flight and every request is answered before the
\* next event; requests go out in the order quote, queue, retrieve; a queue
\* request comes after a quote response that carried a quote and after the
\* confirmation was granted (or --yes); a retrieve request comes after a queue
\* response that carried a queue_id.
C8_QuoteConfirmQueueRetrieve ==
    /\ Cardinality(inflight) <= 1
    /\ inflight # {} <=> (trace # <<>> /\ trace[Len(trace)].e = "request")
    /\ \A i \in 1..Len(trace) :
          trace[i].e = "request"
             => /\ i < Len(trace) => IsResponse(trace[i + 1], trace[i].op)
                /\ \A j \in 1..(i - 1) :
                      trace[j].e = "request" => OpRank(trace[j].op) <= OpRank(trace[i].op)
    /\ \A i \in 1..Len(trace) :
          IsRequest(trace[i], "queue")
             => /\ \E j \in 1..(i - 1) :
                      /\ IsResponse(trace[j], "quote")
                      /\ AnswerOk(trace[j].answer)
                      /\ trace[j].answer.json # None
                      /\ "quote" \in DOMAIN trace[j].answer.json[1]
                /\ \/ args.yes
                   \/ confirm_line # None /\ Accepted(confirm_line[1])
    /\ \A i \in 1..Len(trace) :
          IsRequest(trace[i], "retrieve")
             => \E j \in 1..(i - 1) :
                   /\ IsResponse(trace[j], "queue")
                   /\ AnswerOk(trace[j].answer)
                   /\ trace[j].answer.json # None
                   /\ "queue_id" \in DOMAIN trace[j].answer.json[1]

\* all three operations were called, after a typed " YES"
C8_Witness ==
    /\ ~args.yes
    /\ confirm_line = Some(<<" ", "Y", "E", "S">>)
    /\ NumRequests("quote") = 1
    /\ NumRequests("queue") = 1
    /\ NumRequests("retrieve") >= 2

----------------------------------------------------------------------------
(* C9 *)

\* the failure a response stands for, None if it is none of the claim's failures
FailureType(op, a) ==
    IF a.kind = "ConnectionError" THEN Some("ConnectionError")
    ELSE IF ~AnswerOk(a) THEN Some("HTTPError")
    ELSE IF op = "retrieve" /\ IsStructuredAnswer(a) /\ ~IsProcessingAnswer(a)
    THEN Some("RuntimeError")
    ELSE None

\* C9: the quote and the queue request are sent at most once; a failed response
\* of any stage (connection failure, non-2xx, terminal non-success poll status)
\* is the last event of the run, which ends with exit status 1 and reports that
\* failure; a missing credential is reported with no request sent at all.
C9_FirstFailureEndsRun ==
    /\ NumRequests("quote") <= 1
    /\ NumRequests("queue") <= 1
    /\ \A i \in 1..Len(trace) :
          (trace[i].e = "response" /\ FailureType(trace[i].op, trace[i].answer) # None)
             => /\ LastIs(i)
                /\ inflight = {}
                /\ pc = "exit"
                /\ ~ENABLED Next
                /\ exit_code = Some(1)
                /\ stderr # None
                /\ stderr[1].type = FailureType(trace[i].op, trace[i].answer)[1]
    /\ stderr = Some(MissingKeyError)
          => /\ trace = <<>>
             /\ pc = "exit"
             /\ exit_code = Some(1)

\* a poll answered with a server error after two PROCESSING responses
C9_Witness ==
    /\ trace # <<>>
    /\ IsResponse(trace[Len(trace)], "retrieve")
    /\ trace[Len(trace)].answer.status_code = 500
    /\ NumSleeps = 2
    /\ stderr # None

----------------------------------------------------------------------------
(* C10 *)

\* C10: every retrieve request carries the model of the run's queue request and
\* the queue_id of the queue response.
C10_RetrieveUsesQueuedModelAndId ==
    \A i \in 1..Len(trace) :
        IsRequest(trace[i], "retrieve")
           => \E q \in 1..(i - 1) :
                 /\ IsRequest(trace[q], "queue")
                 /\ IsResponse(trace[q + 1], "queue")
                 /\ trace[i].json.model = trace[q].json.model
                 /\ trace[i].json.queue_id = trace[q + 1].answer.json[1]["queue_id"]

\* three polls of a job queued as q2 for a typed model id
C10_Witness ==
    /\ NumRequests("retrieve") = 3
    /\ queue_id = Some("q2")
    /\ config # None
    /\ config[1].model = <<"my-model">>

----------------------------------------------------------------------------
(* C11 *)

\* the user declined at the confirmation prompt
Cancelled == confirm_line # None /\ Declined(confirm_line[1])

\* C11 as stated: the exit status is 0 on success and 1 on every handled error,
\* user cancellation counted among the handled errors.
C11_CancellationExitsOne ==
    pc = "exit"
        => /\ PollerState = "Ready" => exit_code = Some(0)
           /\ (stderr # None \/ Cancelled) => exit_code = Some(1)

\* C11, amended: the exit status is 0 exactly when the media was written or the
\* user cancelled, and 1 whenever an error was reported (missing image, missing
\* credential, network or API failure, any other exception).
C11_ExitZeroOnSuccessOrCancel ==
    pc = "exit"
        => /\ exit_code \in {Some(0), Some(1)}
           /\ exit_code = Some(0) <=> (PollerState = "Ready" \/ Cancelled)
           /\ exit_code = Some(1) <=> stderr # None
           /\ ~args.image_exists => exit_code = Some(1)
           /\ ~Truthy(environ) => exit_code = Some(1)
           /\ (trace # <<>> /\ trace[Len(trace)].e = "response"
                 /\ ~AnswerOk(trace[Len(trace)].answer)) => exit_code = Some(1)

\* the user typed "No " and the run ended with status 0
C11_Witness ==
    /\ pc = "exit"
    /\ confirm_line = Some(<<"N", "o", " ">>)
    /\ stdout = <<"Video generation cancelled.">>
    /\ exit_code = Some(0)

----------------------------------------------------------------------------
(* C12 *)

\* C12 as stated: when the source image or a reference image does not exist, no
\* request is ever sent and the run ends with exit status 1.
C12_MissingFileNoNetwork ==
    (~args.image_exists \/ FirstMissing(args.reference_images) # 0)
        => /\ trace = <<>>
           /\ inflight = {}
           /\ pc = "exit" => exit_code = Some(1)

----------------------------------------------------------------------------
(* C13 *)

ConfigKeys == {"model", "duration", "resolution", "aspect_ratio", "audio"}

\* the keys of ConfigKeys a payload carries, with their values
ConfigPart(payload) == [k \in DOMAIN payload \cap ConfigKeys |-> payload[k]]

\* C13: the five configuration fields of config are those of the command line
\* at all times; the quote request carries them, the queue request carries the
\* same keys with the same values, and config["price"] at the time of the queue
\* request is the quote the quote response returned.
C13_QueuedConfigIsQuotedConfig ==
    /\ config # None
          => /\ ConfigKeys \subseteq DOMAIN config[1]
             /\ config[1].duration = args.options.duration
             /\ config[1].resolution = args.options.resolution
             /\ config[1].aspect_ratio = args.options.aspect_ratio
             /\ config[1].audio = ~args.options.no_audio
             /\ Truthy(args.model) => config[1].model = args.model[1]
    /\ \A i \in 1..Len(trace) :
          IsRequest(trace[i], "quote")
             => /\ trace[i].json.model = config[1].model
                /\ trace[i].json.duration = config[1].duration
                /\ trace[i].json.resolution = config[1].resolution
                /\ trace[i].json.audio = config[1].audio
                /\ IF config[1].aspect_ratio # <<>>
                   THEN trace[i].json.aspect_ratio = config[1].aspect_ratio
                   ELSE "aspect_ratio" \notin DOMAIN trace[i].json
    /\ \A i \in 1..Len(trace) :
          IsRequest(trace[i], "queue")
             => \E p \in 1..(i - 1) :
                   /\ IsRequest(trace[p], "quote")
                   /\ ConfigPart(trace[i].json) = ConfigPart(trace[p].json)
                   /\ IsResponse(trace[p + 1], "quote")
                   /\ "price" \in DOMAIN config[1]
                   /\ config[1].price = trace[p + 1].answer.json[1]["quote"]

\* a 10s, 1080p job without aspect ratio or audio was quoted and queued for a
\* typed model id
C13_Witness ==
    /\ NumRequests("queue") = 1
    /\ args.options.duration = "10s"
    /\ config[1].model = <<"my-model">>
    /\ \E i \in 1..Len(trace) :
          IsRequest(trace[i], "queue") /\ "aspect_ratio" \notin DOMAIN trace[i].json

----------------------------------------------------------------------------
(* C14 *)

\* the positions of the trace where an edit call returned image bytes
EditsDone ==
    {i \in 1..Len(trace) :
        /\ IsResponse(trace[i], "edit")
        /\ trace[i].kind = "response"
        /\ ~(trace[i].status_code >= 400 /\ trace[i].status_code < 600)}

\* every edit of the command line was answered with image bytes
AllEditsSucceeded == Cardinality(EditsDone) = Len(args.edits)

\* the bytes the last successful edit call returned
LastEditContent == trace[CHOOSE i \in EditsDone : \A j \in EditsDone : j <= i].content

\* some os.remove of a temporary file failed
RemovalFailed == \E i \in 1..Len(trace) : trace[i].e = "remove" /\ ~trace[i].ok

\* C14: a failed removal of a temporary file is never the error of the run; a
\* run of multi_edit whose edit calls all succeed ends with exit status 0 and
\* the bytes of the last edit at the output path, whether or not a removal
\* failed; every other run ends with exit status 1 and an error on stderr.
C14_CleanupFailureIsSwallowed ==
    /\ stderr # None => stderr[1] # RemoveError
    /\ pc = "exit"
          => IF AllEditsSucceeded
             THEN /\ exit_code = Some(0)
                  /\ stderr = None
                  /\ args.output \in DOMAIN files
                  /\ files[args.output] = LastEditContent
             ELSE /\ exit_code = Some(1)
                  /\ stderr # None

\* three edits without --save-steps succeeded although a removal failed
C14_Witness ==
    /\ pc = "exit"
    /\ exit_code = Some(0)
    /\ ~args.save_steps
    /\ Len(args.edits) = 3
    /\ RemovalFailed
    /\ files[args.output] = LastEditContent

----------------------------------------------------------------------------
(* C15 *)

\* The poller runs on: a thread that can take its next step takes it, and
\* every retrieve request is answered.  The remote answers "PROCESSING" to
\* fewer than MaxPolls requests of a run (the guard of PollRecv).
SpecLive ==
    /\ Spec
    /\ WF_vars(RetrieveVideoEnter)
    /\ WF_vars(PollSend)
    /\ WF_vars(PollRecv)

\* every retrieve response received so far said "PROCESSING"
OnlyProcessingSoFar ==
    /\ \E i \in 1..Len(trace) : IsResponse(trace[i], "retrieve")
    /\ \A i \in 1..Len(trace) :
          IsResponse(trace[i], "retrieve") => IsProcessingAnswer(trace[i].answer)

\* a run that reached Polling ends in Ready or Failed with the process exited
C15_PollingEventuallyExits ==
    (PollerState = "Polling") ~> (pc = "exit" /\ PollerState \in {"Ready", "Failed"})

\* C15 as stated: with a remote that eventually answers something other than
\* "PROCESSING", every run that reached Polling eventually exits in Ready or
\* Failed; and nothing but such an answer ends the run: while every retrieve
\* response so far said "PROCESSING" the process has not exited and has slept
\* once per response.
C15_PollLoopEndsOnlyByAnswer ==
    /\ C15_PollingEventuallyExits
    /\ [](OnlyProcessingSoFar
            => /\ pc # "exit"
               /\ NumSleeps = NumRequests("retrieve") - Cardinality(inflight))

----------------------------------------------------------------------------
(* C16 *)

\* the bytes uploaded by the request at position i are those of the original
\* image for the first edit and those the previous edit returned for a later one
ReadsPreviousResult(i) ==
    LET before == {j \in EditsDone : j < i}
    IN  trace[i].files.image =
           IF before = {}
           THEN Original
           ELSE trace[CHOOSE j \in before : \A k \in before : k <= j].content

\* C16 as stated: without --save-steps, edit 1 uploads the original image and
\* edit k > 1 the result of edit k-1; the input file exists throughout the
\* run; after a successful return the output path holds the bytes of edit N and
\* no .temp_step_k.png exists for k in 1..N.
C16_ChainKeepsInputLeavesNoTemp ==
    ~args.save_steps
        => /\ \A i \in 1..Len(trace) :
                 IsRequest(trace[i], "edit") => ReadsPreviousResult(i)
           /\ NumRequests("edit") >= 1 => args.image \in DOMAIN files
           /\ (pc = "exit" /\ exit_code = Some(0))
                 => /\ args.output \in DOMAIN files
                    /\ files[args.output] = LastEditContent
                    /\ \A k \in 1..Len(args.edits) : TempStep(k) \notin DOMAIN files

====
